---- MODULE Spec2Model ----
(***************************************************************************)
(* A model of mesitype.h: SI quantities whose dimension (seven rational    *)
(* exponents) and power-of-ten prefix are template parameters of           *)
(* RationalTypeReduced, and whose only runtime state is the stored value.  *)
(*                                                                         *)
(* A "Quantity" is a record [dim, pref, val]; dim maps each unit of        *)
(* ALL_UNITS to the pair [num, den] of template arguments t_X_n, t_X_d.    *)
(* The storage type T is a signed integer type (division truncates toward  *)
(* zero).  A call that no overload accepts, or whose instantiation trips   *)
(* a static_assert, is a build failure: the operation yields ok = FALSE    *)
(* and nothing is computed.                                                *)
(***************************************************************************)
EXTENDS Integers, Sequences, FiniteSets

(***************************************************************************)
(* Bounds of the model.                                                    *)
(***************************************************************************)
\* largest sum of |numerator| over the exponents of a tracked quantity
MaxDeg == 4
\* largest weight of a tracked quantity: that sum, plus |prefix|, plus |val|
MaxWeight == 5
\* largest sum of |numerator| over the exponents of a quantity that is added
\* to, compared, scaled by a bare number or converted (products and quotients
\* are taken of every tracked quantity)
MaxSimpleDeg == 1
\* largest |prefix| of a tracked quantity
MaxPref == 3
\* largest |numerator| and |denominator| handed to a constructor
MaxRaw == 2
\* number of threads calling getUnit
NThreads == 2

(***************************************************************************)
(* ALL_UNITS, in macro order.                                              *)
(***************************************************************************)
Units == <<"m", "s", "kg", "A", "K", "mol", "cd">>

UnitSet == {Units[i] : i \in 1..Len(Units)}

(***************************************************************************)
(* Integer helpers of <ratio> and of the storage type.                     *)
(***************************************************************************)
Abs(n) == IF n < 0 THEN -n ELSE n

Sign(n) == IF n < 0 THEN -1 ELSE IF n = 0 THEN 0 ELSE 1

RECURSIVE GCD(_, _)
GCD(p, q) == IF q = 0 THEN Abs(p) ELSE IF p = 0 THEN Abs(q) ELSE GCD(Abs(q), Abs(p) % Abs(q))

\* T's operator/ : truncation toward zero (b # 0)
CDiv(a, b) == Sign(a) * Sign(b) * (Abs(a) \div Abs(b))

\* a ratio that moves the sign into the numerator and does not divide by the gcd
RatioUnreduced(n, d) == [num |-> Sign(d) * n, den |-> Abs(d)]

\* std::ratio<n, d>::num and ::den (d # 0)
Ratio(n, d) ==
  [num |-> (Sign(n) * Sign(d) * Abs(n)) \div GCD(n, d), den |-> Abs(d) \div GCD(n, d)]

\* std::ratio_add<std::ratio<n1,d1>, std::ratio<n2,d2>>
RatioAdd(a, b) ==
  LET r1 == Ratio(a.num, a.den)
      r2 == Ratio(b.num, b.den)
  IN  Ratio(r1.num * r2.den + r2.num * r1.den, r1.den * r2.den)

\* the difference taken the other way round
RatioSubtractSwapped(a, b) ==
  LET r1 == Ratio(a.num, a.den)
      r2 == Ratio(b.num, b.den)
  IN  Ratio(r2.num * r1.den - r1.num * r2.den, r1.den * r2.den)

\* std::ratio_subtract<std::ratio<n1,d1>, std::ratio<n2,d2>>
RatioSubtract(a, b) ==
  LET r1 == Ratio(a.num, a.den)
      r2 == Ratio(b.num, b.den)
  IN  Ratio(r1.num * r2.den - r2.num * r1.den, r1.den * r2.den)

(***************************************************************************)
(* The class template and its aliases.                                     *)
(***************************************************************************)
\* one static_assert of RationalTypeReduced; std::ratio<n, 0> is itself ill-formed
StaticAssertOK(n, d) == d # 0 /\ Ratio(n, d).num = n

\* RationalTypeReduced<T, ...dim..., pref> can be instantiated
Instantiable(dim) == \A u \in UnitSet : StaticAssertOK(dim[u].num, dim[u].den)

\* RationalTypeReduced<T, ...dim..., pref>(v)
RationalTypeReduced(dim, pref, v) == [dim |-> dim, pref |-> pref, val |-> v]

\* RationalType<T, ...dim..., pref>(v): every fraction goes through std::ratio
RationalType(dim, pref, v) ==
  RationalTypeReduced([u \in UnitSet |-> Ratio(dim[u].num, dim[u].den)], pref, v)

\* Type<T, t_m, t_s, t_kg, 0, 0, 0, 0, t_pref>(v)
Type(tm, ts, tkg, pref, v) ==
  RationalType([u \in UnitSet |->
                  [num |-> IF u = "m" THEN tm ELSE IF u = "s" THEN ts
                           ELSE IF u = "kg" THEN tkg ELSE 0,
                   den |-> 1]], pref, v)

Tag(q) == [dim |-> q.dim, pref |-> q.pref]

\* operator* with the right operand's prefix forgotten
OpMulLeftPrefix(left, right) ==
  RationalType([u \in UnitSet |-> RatioAdd(left.dim[u], right.dim[u])],
               left.pref, left.val * right.val)

\* binary operator*(RationalTypeReduced, RationalTypeReduced)
OpMul(left, right) ==
  RationalType([u \in UnitSet |-> RatioAdd(left.dim[u], right.dim[u])],
               left.pref + right.pref, left.val * right.val)

\* operator/ written as a copy of operator*: ADD_FRAC kept
OpDivAddFrac(left, right) ==
  RationalType([u \in UnitSet |-> RatioAdd(left.dim[u], right.dim[u])],
               left.pref - right.pref, CDiv(left.val, right.val))

\* binary operator/(RationalTypeReduced, RationalTypeReduced), right.val # 0
OpDiv(left, right) ==
  RationalType([u \in UnitSet |-> RatioSubtract(left.dim[u], right.dim[u])],
               left.pref - right.pref, CDiv(left.val, right.val))

Scalar(v) == Type(0, 0, 0, 0, v)
Meters(v) == Type(1, 0, 0, 0, v)
Seconds(v) == Type(0, 1, 0, 0, v)
Kilograms(v) == Type(0, 0, 1, 0, v)
Newtons(v) ==
  [OpDiv(OpDiv(OpMul(Meters(1), Kilograms(1)), Seconds(1)), Seconds(1)) EXCEPT !.val = v]
MetersSq(v) == [OpMul(Meters(1), Meters(1)) EXCEPT !.val = v]
SecondsSq(v) == [OpMul(Seconds(1), Seconds(1)) EXCEPT !.val = v]
Kilo(v) == Type(0, 0, 0, 3, v)
Milli(v) == [OpDiv(Scalar(1), Kilo(1)) EXCEPT !.val = v]

\* an instantiation with a fractional exponent: RationalType<T, 2, 4, 0, 1, ...>(v)
RootMeters(v) ==
  RationalType([u \in UnitSet |-> IF u = "m" THEN [num |-> 2, den |-> 4]
                                  ELSE [num |-> 0, den |-> 1]], 0, v)

\* a deduction that looks at the fourteen exponent arguments only
SameDimension(left, right) == left.dim = right.dim

\* deduction of TYPE_A_PARAMS from both arguments of operator+, operator-, operator==, ...
SameType(left, right) == Tag(left) = Tag(right)

\* binary operator+
OpAdd(left, right) == RationalTypeReduced(left.dim, left.pref, left.val + right.val)

\* binary operator-
OpSub(left, right) == RationalTypeReduced(left.dim, left.pref, left.val - right.val)

\* RationalTypeReduced<T, TYPE_A_PARAMS>::ScalarType(v)
ScalarType(q, v) ==
  RationalTypeReduced([u \in UnitSet |-> [num |-> 0, den |-> 1]], q.pref, v)

\* operator*(RationalTypeReduced, S)
ScalarMulRight(left, s) == RationalTypeReduced(left.dim, left.pref, left.val * s)

\* operator*(S, RationalTypeReduced)
ScalarMulLeft(s, right) == ScalarMulRight(right, s)

\* operator/(RationalTypeReduced, S), s # 0
ScalarDivRight(left, s) == OpDiv(left, ScalarType(left, s))

\* operator/(S, RationalTypeReduced), right.val # 0
ScalarDivLeft(s, right) == OpDiv(ScalarType(right, s), right)

\* the loops with a division that rounds down instead of toward zero
RECURSIVE ScaleLoopFloor(_, _)
ScaleLoopFloor(nv, pref_diff) ==
  IF pref_diff > 0 THEN ScaleLoopFloor(nv * 10, pref_diff - 1)
  ELSE IF pref_diff < 0 THEN ScaleLoopFloor(nv \div 10, pref_diff + 1)
  ELSE nv

\* the two while loops of the prefix conversion operator
RECURSIVE ScaleLoop(_, _)
ScaleLoop(nv, pref_diff) ==
  IF pref_diff > 0 THEN ScaleLoop(nv * 10, pref_diff - 1)
  ELSE IF pref_diff < 0 THEN ScaleLoop(CDiv(nv, 10), pref_diff + 1)
  ELSE nv

\* the conversion with pref_diff taken the other way round
PrefixCastSwapped(q, pref2) == RationalTypeReduced(q.dim, pref2, ScaleLoop(q.val, pref2 - q.pref))

\* explicit operator RationalTypeReduced<T, ...same dim..., pref2>()
PrefixCast(q, pref2) == RationalTypeReduced(q.dim, pref2, ScaleLoop(q.val, q.pref - pref2))

\* the comparison operators, once deduction has succeeded
CmpEq(left, right) == left.val = right.val
CmpLt(left, right) == left.val < right.val
CmpNe(left, right) == ~CmpEq(right, left)
CmpLe(left, right) == CmpLt(left, right) \/ CmpEq(left, right)
CmpGt(left, right) == CmpLt(right, left)
CmpGe(left, right) == CmpGt(left, right) \/ CmpEq(left, right)

CmpOps == {"==", "<", "!=", "<=", ">", ">="}

Cmp(c, left, right) ==
  CASE c = "==" -> CmpEq(left, right)
    [] c = "<"  -> CmpLt(left, right)
    [] c = "!=" -> CmpNe(left, right)
    [] c = "<=" -> CmpLe(left, right)
    [] c = ">"  -> CmpGt(left, right)
    [] c = ">=" -> CmpGe(left, right)

(***************************************************************************)
(* The session: one quantity x that a program keeps working on, and the    *)
(* record of the last operation applied to it.                             *)
(*   last.op    the operation                                              *)
(*   last.l     its left (or only) quantity operand                        *)
(*   last.r     its right quantity operand; for a constructor, the         *)
(*              template arguments as written                              *)
(*   last.s     its bare-number operand; for a conversion, the target      *)
(*   last.ok    the call compiled                                          *)
(*   last.q     the quantity it returned                                   *)
(*   last.b     the boolean it returned (comparisons)                      *)
(*   last.ub    "none", or what a division by zero in T did:               *)
(*              "value" (some value came back) or "trap"                   *)
(*   last.from  for a conversion that follows a conversion: the operand    *)
(*              of the first one                                           *)
(***************************************************************************)
VARIABLES x, last, utag, s_unitString, pc, ret

vars == <<x, last, utag, s_unitString, pc, ret>>

ZeroDim == [u \in UnitSet |-> [num |-> 0, den |-> 1]]

NoQ == RationalTypeReduced(ZeroDim, 0, 0)

Rec(op, l, r, s, ok, q) ==
  [op |-> op, l |-> l, r |-> r, s |-> s, ok |-> ok, q |-> q, b |-> FALSE,
   ub |-> "none", chained |-> FALSE, from |-> NoQ]

\* literal values written in the program
MaxLit == 2

Lits == 0..MaxLit

RECURSIVE SumDeg(_, _)
SumDeg(dim, i) == IF i = 0 THEN 0 ELSE Abs(dim[Units[i]].num) + SumDeg(dim, i - 1)

Deg(dim) == SumDeg(dim, Len(Units))

\* the quantities the session goes on with
InBox(q) ==
  /\ Deg(q.dim) <= MaxDeg
  /\ Abs(q.pref) <= MaxPref
  /\ Deg(q.dim) + Abs(q.pref) + Abs(q.val) <= MaxWeight

\* the quantities a program writes as operands: alias(1), or decltype(x)(v)
LitTypes ==
  {Scalar(1), Meters(1), Seconds(1), Kilograms(1), MetersSq(1), SecondsSq(1),
   Kilo(1), RootMeters(1)}

Operands(q) == LitTypes \cup {[q EXCEPT !.val = v] : v \in Lits}

\* what T's division by zero may do: trap, or return any value
UBVals == {-1, 0, 1}

\* the program is between two statements
Running == last.op \in {"init", "idle"}

\* x is simple enough for the operations that keep or compare its type
Simple == Deg(x.dim) <= MaxSimpleDeg

\* x * r, r one of the operands R
MulBy(R) ==
  /\ Running
  /\ \E r \in R :
       \E q \in {OpMul(x, r)} :
         /\ InBox(q)
         /\ x' = q
         /\ last' = Rec("mul", x, r, 0, Instantiable(q.dim), q)
  /\ UNCHANGED <<utag, s_unitString, pc, ret>>

\* x * r
Mul == MulBy(Operands(x))

\* a division whose divisor is zero, undefined for an integer T: the program traps
\* (last.q then only carries the type of the expression), or some value comes back
DivOutcome(op, l, r, s, q) ==
  \/ /\ x' = x
     /\ last' = [Rec(op, l, r, s, TRUE, [q EXCEPT !.val = 0]) EXCEPT !.ub = "trap"]
  \/ \E w \in UBVals :
       /\ x' = [q EXCEPT !.val = w]
       /\ last' = [Rec(op, l, r, s, TRUE, [q EXCEPT !.val = w]) EXCEPT !.ub = "value"]

\* x / r, r one of the operands R
DivBy(R) ==
  /\ Running
  /\ \E r \in R :
       IF r.val = 0
       THEN \E q \in {OpDiv(x, [r EXCEPT !.val = 1])} :
              InBox(q) /\ DivOutcome("div", x, r, 0, q)
       ELSE \E q \in {OpDiv(x, r)} :
              /\ InBox(q)
              /\ x' = q
              /\ last' = Rec("div", x, r, 0, Instantiable(q.dim), q)
  /\ UNCHANGED <<utag, s_unitString, pc, ret>>

\* x / r
Div == DivBy(Operands(x))

\* operands of x + r, x - r and the comparisons: of x's type, or of two alias types
SameOperands(q) == {Meters(1), Kilo(1)} \cup {[q EXCEPT !.val = v] : v \in Lits}

\* x + r
Add ==
  /\ Running
  /\ Simple
  /\ \E r \in SameOperands(x) :
       IF SameType(x, r)
       THEN \E q \in {OpAdd(x, r)} :
              /\ InBox(q)
              /\ x' = q
              /\ last' = Rec("add", x, r, 0, TRUE, q)
       ELSE /\ x' = x
            /\ last' = Rec("add", x, r, 0, FALSE, NoQ)
  /\ UNCHANGED <<utag, s_unitString, pc, ret>>

\* x - r
Sub ==
  /\ Running
  /\ Simple
  /\ \E r \in SameOperands(x) :
       IF SameType(x, r)
       THEN \E q \in {OpSub(x, r)} :
              /\ InBox(q)
              /\ x' = q
              /\ last' = Rec("sub", x, r, 0, TRUE, q)
       ELSE /\ x' = x
            /\ last' = Rec("sub", x, r, 0, FALSE, NoQ)
  /\ UNCHANGED <<utag, s_unitString, pc, ret>>

\* x == r, x < r, ...
Compare ==
  /\ Running
  /\ Simple
  /\ \E c \in CmpOps, r \in SameOperands(x) :
       /\ x' = x
       /\ IF SameType(x, r)
          THEN last' = [Rec(c, x, r, 0, TRUE, NoQ) EXCEPT !.b = Cmp(c, x, r)]
          ELSE last' = Rec(c, x, r, 0, FALSE, NoQ)
  /\ UNCHANGED <<utag, s_unitString, pc, ret>>

\* bare numbers written in the program
Scalars == (-1)..MaxLit

\* x * s
MulScalar ==
  /\ Running
  /\ Simple
  /\ \E s \in Scalars :
       \E q \in {ScalarMulRight(x, s)} :
         /\ InBox(q)
         /\ x' = q
         /\ last' = Rec("q*s", x, NoQ, s, TRUE, q)
  /\ UNCHANGED <<utag, s_unitString, pc, ret>>

\* s * x
ScalarMul ==
  /\ Running
  /\ Simple
  /\ \E s \in Scalars :
       \E q \in {ScalarMulLeft(s, x)} :
         /\ InBox(q)
         /\ x' = q
         /\ last' = Rec("s*q", x, NoQ, s, TRUE, q)
  /\ UNCHANGED <<utag, s_unitString, pc, ret>>

\* x / s
DivScalar ==
  /\ Running
  /\ Simple
  /\ \E s \in Scalars :
       IF s = 0
       THEN \E q \in {ScalarDivRight(x, 1)} :
              InBox(q) /\ DivOutcome("q/s", x, NoQ, s, q)
       ELSE \E q \in {ScalarDivRight(x, s)} :
              /\ InBox(q)
              /\ x' = q
              /\ last' = Rec("q/s", x, NoQ, s, Instantiable(q.dim), q)
  /\ UNCHANGED <<utag, s_unitString, pc, ret>>

\* s / x
ScalarDiv ==
  /\ Running
  /\ Simple
  /\ \E s \in Scalars :
       IF x.val = 0
       THEN \E q \in {ScalarDivLeft(s, [x EXCEPT !.val = 1])} :
              InBox(q) /\ DivOutcome("s/q", x, NoQ, s, q)
       ELSE \E q \in {ScalarDivLeft(s, x)} :
              /\ InBox(q)
              /\ x' = q
              /\ last' = Rec("s/q", x, NoQ, s, Instantiable(q.dim), q)
  /\ UNCHANGED <<utag, s_unitString, pc, ret>>

\* prefixes a program converts to
Prefixes == {-MaxPref, Milli(1).pref, 0, Kilo(1).pref, MaxPref}

\* largest |val| a conversion may produce in the model
RECURSIVE Pow10(_)
Pow10(k) == IF k = 0 THEN 1 ELSE 10 * Pow10(k - 1)

ConvBound == MaxWeight * Pow10(MaxPref)

\* static_cast<RationalTypeReduced<T, ...dim of x..., pref2>>(x)
Convert ==
  /\ Running
  /\ Simple
  /\ \E pref2 \in Prefixes :
       \E q \in {PrefixCast(x, pref2)} :
         /\ Abs(q.val) <= ConvBound
         /\ x' = q
         /\ last' = [Rec("convert", x, NoQ, pref2, TRUE, q) EXCEPT
                       !.chained = last.chained,
                       !.from = last.from]
  /\ UNCHANGED <<utag, s_unitString, pc, ret>>

\* a constructor expression does not read x: it is tried once, as the first statement
Fresh == last.op = "init"

\* the template arguments of a constructor call: one exponent written as n/d
Written(u, n, d) ==
  [w \in UnitSet |-> IF w = u THEN [num |-> n, den |-> d] ELSE [num |-> 0, den |-> 1]]

\* the expression RationalType<T, ..., n, d, ...>(v), a temporary
Construct ==
  /\ Fresh
  /\ \E u \in UnitSet, n \in (-MaxRaw)..MaxRaw, d \in (-MaxRaw)..MaxRaw, v \in Lits :
       \E w \in {RationalTypeReduced(Written(u, n, d), 0, v)} :
         IF d # 0 /\ Instantiable(RationalType(w.dim, 0, v).dim)
         THEN /\ x' = x
              /\ last' = Rec("RationalType", NoQ, w, 0, TRUE, RationalType(w.dim, 0, v))
         ELSE /\ x' = x
              /\ last' = Rec("RationalType", NoQ, w, 0, FALSE, NoQ)
  /\ UNCHANGED <<utag, s_unitString, pc, ret>>

\* the expression RationalTypeReduced<T, ..., n, d, ..., 0>(v), a temporary
RawConstruct ==
  /\ Fresh
  /\ \E u \in UnitSet, n \in (-MaxRaw)..MaxRaw, d \in (-MaxRaw)..MaxRaw, v \in Lits :
       \E w \in {RationalTypeReduced(Written(u, n, d), 0, v)} :
         IF Instantiable(w.dim)
         THEN /\ x' = x
              /\ last' = Rec("RationalTypeReduced", NoQ, w, 0, TRUE, w)
         ELSE /\ x' = x
              /\ last' = Rec("RationalTypeReduced", NoQ, w, 0, FALSE, NoQ)
  /\ UNCHANGED <<utag, s_unitString, pc, ret>>

\* the statement is over: its temporaries are gone
Retire ==
  /\ last.op \notin {"init", "idle"}
  /\ last.ub # "trap"
  /\ x' = x
  /\ last' = Rec("idle", NoQ, NoQ, 0, TRUE, NoQ)
  /\ UNCHANGED <<utag, s_unitString, pc, ret>>

Init ==
  /\ x \in {t \in LitTypes : TRUE}
  /\ last = Rec("init", NoQ, NoQ, 0, TRUE, x)
  /\ utag = Tag(NoQ)
  /\ s_unitString = <<>>
  /\ pc = <<>>
  /\ ret = <<>>

Next ==
  \/ Mul
  \/ Div
  \/ Add
  \/ Sub
  \/ Compare
  \/ MulScalar
  \/ ScalarMul
  \/ DivScalar
  \/ ScalarDiv
  \/ Convert
  \/ Construct
  \/ RawConstruct
  \/ Retire

Spec == Init /\ [][Next]_vars

\* ---- chains of products and quotients of the alias types ----

\* x * r, r written as alias(1)
ChainMul == MulBy(LitTypes)

\* x / r, r written as alias(1)
ChainDiv == DivBy(LitTypes)

NextChain ==
  \/ ChainMul
  \/ ChainDiv
  \/ Retire

SpecChain == Init /\ [][NextChain]_vars

\* ---- nested prefix conversions: static_cast<B>(static_cast<A>(x)) ----

\* values a conversion chain starts from
ConvInputs ==
  {RationalTypeReduced(t.dim, p, v) :
     t \in {Scalar(1), Meters(1)}, p \in Prefixes, v \in (-MaxWeight)..MaxWeight}

\* the result of a conversion is the operand of the next one; what stays known
\* is the quantity it was converted from
Recast ==
  /\ last.op = "convert"
  /\ x' = x
  /\ last' = [Rec("idle", NoQ, NoQ, 0, TRUE, NoQ) EXCEPT
                !.chained = TRUE,
                !.from = last.l]
  /\ UNCHANGED <<utag, s_unitString, pc, ret>>

InitConvert ==
  /\ x \in ConvInputs
  /\ last = Rec("init", NoQ, NoQ, 0, TRUE, x)
  /\ utag = Tag(NoQ)
  /\ s_unitString = <<>>
  /\ pc = <<>>
  /\ ret = <<>>

NextConvert ==
  \/ Convert
  \/ Recast

SpecConvert == InitConvert /\ [][NextConvert]_vars

(***************************************************************************)
(* getUnit(): the function-local static s_unitString of one instantiation, *)
(* built in place by whoever finds it empty.  A std::string is a sequence  *)
(* of characters.  Threads interleave between the statements of getUnit;   *)
(* unsynchronised access to a std::string is a data race, of which the     *)
(* statement-level interleavings below are the mildest outcomes.           *)
(***************************************************************************)
Threads == 1..NThreads

DigitChars == <<"0", "1", "2", "3", "4", "5", "6", "7", "8", "9">>

RECURSIVE Digits(_)
Digits(n) == IF n < 10 THEN <<DigitChars[n + 1]>> ELSE Digits(n \div 10) \o <<DigitChars[(n % 10) + 1]>>

\* std::to_string(static_cast<long long>(n))
ToString(n) == IF n < 0 THEN <<"-">> \o Digits(-n) ELSE Digits(n)

\* std::string(#TP)
UnitName(u) ==
  CASE u = "m"   -> <<"m">>
    [] u = "s"   -> <<"s">>
    [] u = "kg"  -> <<"k", "g">>
    [] u = "A"   -> <<"A">>
    [] u = "K"   -> <<"K">>
    [] u = "mol" -> <<"m", "o", "l">>
    [] u = "cd"  -> <<"c", "d">>

\* what the if( t_pref != 0 ) statement appends
PrefixPiece(tag) ==
  IF tag.pref # 0
  THEN <<" ", "*", " ", "1", "0", "^">> \o ToString(tag.pref) \o <<" ">>
  ELSE <<>>

\* what DIM_TO_STRING(TP) appends
DimPiece(tag, u) ==
  LET n == tag.dim[u].num
      d == tag.dim[u].den
  IN  IF n = 1 /\ d = 1 THEN UnitName(u) \o <<" ">>
      ELSE IF n # 0 /\ d = 1 THEN UnitName(u) \o <<"^">> \o ToString(n) \o <<" ">>
      ELSE IF n # 0 THEN UnitName(u) \o <<"^", "(">> \o ToString(n) \o <<"/">> \o ToString(d) \o <<")", " ">>
      ELSE <<>>

\* s.substr(0, s.size() - 1); size() - 1 wraps to npos for the empty string
DropLast(str) == IF Len(str) = 0 THEN str ELSE SubSeq(str, 1, Len(str) - 1)

At(t, where) == pc[t].at = where

Goto(t, where, i) == pc' = [pc EXCEPT ![t] = [at |-> where, i |-> i]]

\* if( s_unitString.size() > 0 ) return s_unitString;
GetUnitCheck(t) ==
  /\ At(t, "L97")
  /\ IF Len(s_unitString) > 0
     THEN /\ ret' = [ret EXCEPT ![t] = s_unitString]
          /\ Goto(t, "done", 0)
     ELSE /\ ret' = ret
          /\ Goto(t, "L100", 0)
  /\ UNCHANGED <<x, last, utag, s_unitString>>

\* if( t_pref != 0 ) s_unitString += ...
GetUnitPrefix(t) ==
  /\ At(t, "L100")
  /\ s_unitString' = s_unitString \o PrefixPiece(utag)
  /\ Goto(t, "L106", 1)
  /\ UNCHANGED <<x, last, utag, ret>>

\* ALL_UNITS(DIM_TO_STRING), one unit at a time
GetUnitDim(t) ==
  /\ At(t, "L106")
  /\ s_unitString' = s_unitString \o DimPiece(utag, Units[pc[t].i])
  /\ IF pc[t].i < Len(Units) THEN Goto(t, "L106", pc[t].i + 1) ELSE Goto(t, "L109", 0)
  /\ UNCHANGED <<x, last, utag, ret>>

\* s_unitString = s_unitString.substr(0, s_unitString.size() - 1);
GetUnitSubstr(t) ==
  /\ At(t, "L109")
  /\ s_unitString' = DropLast(s_unitString)
  /\ Goto(t, "L110", 0)
  /\ UNCHANGED <<x, last, utag, ret>>

\* return s_unitString;
GetUnitReturn(t) ==
  /\ At(t, "L110")
  /\ ret' = [ret EXCEPT ![t] = s_unitString]
  /\ Goto(t, "done", 0)
  /\ UNCHANGED <<x, last, utag, s_unitString>>

\* the instantiations whose getUnit is called
UnitTags ==
  {Tag(Scalar(1)), Tag(Meters(1)), Tag(Newtons(1)), Tag(Kilo(1)), Tag(RootMeters(1))}

InitUnit ==
  /\ x = Scalar(1)
  /\ last = Rec("init", NoQ, NoQ, 0, TRUE, x)
  /\ utag \in UnitTags
  /\ s_unitString = <<>>
  /\ pc = [t \in Threads |-> [at |-> "L97", i |-> 0]]
  /\ ret = [t \in Threads |-> <<>>]

NextUnit ==
  \E t \in Threads :
    \/ GetUnitCheck(t)
    \/ GetUnitPrefix(t)
    \/ GetUnitDim(t)
    \/ GetUnitSubstr(t)
    \/ GetUnitReturn(t)

SpecUnit == InitUnit /\ [][NextUnit]_vars

\* getUnit() called by one thread alone, from start to end
RECURSIVE DimPieces(_, _)
DimPieces(tag, i) == IF i = 0 THEN <<>> ELSE DimPieces(tag, i - 1) \o DimPiece(tag, Units[i])

UnitString(tag) == DropLast(PrefixPiece(tag) \o DimPieces(tag, Len(Units)))

(***************************************************************************)
(* Vocabulary of the properties.                                           *)
(***************************************************************************)
\* f is a reduced fraction: denominator > 0 and gcd(|numerator|, denominator) = 1
IsReducedFrac(f) ==
  /\ f.den > 0
  /\ \A k \in 2..f.den : ~(Abs(f.num) % k = 0 /\ f.den % k = 0)

\* f = a + b and f = a - b as rational numbers
IsSumOf(f, a, b) == f.num * a.den * b.den = (a.num * b.den + b.num * a.den) * f.den

IsDifferenceOf(f, a, b) == f.num * a.den * b.den = (a.num * b.den - b.num * a.den) * f.den

\* n = a / b in T: the quotient truncated toward zero
IsQuotientOf(n, a, b) ==
  /\ Abs(a - n * b) < Abs(b)
  /\ (a - n * b) * a >= 0

\* C1: x * r always compiles; each exponent of the result is the reduced sum of
\* the operands' exponents, its prefix the sum of their prefixes, its value the
\* product of their values
MulContract ==
  last.op = "mul" =>
    /\ last.ok
    /\ \A u \in UnitSet :
         /\ IsReducedFrac(last.q.dim[u])
         /\ IsSumOf(last.q.dim[u], last.l.dim[u], last.r.dim[u])
    /\ last.q.pref = last.l.pref + last.r.pref
    /\ last.q.val = last.l.val * last.r.val
    /\ x = last.q

\* a length times a length is an area: Meters * Meters gives MetersSq
MulWitness ==
  /\ last.op = "mul"
  /\ Tag(last.l) = Tag(Meters(1))
  /\ last.r = Meters(2)
  /\ last.l.val = 1
  /\ last.q = MetersSq(2)

\* C2: x / r always compiles and has no zero check; each exponent of the result
\* is the reduced difference of the operands' exponents, its prefix the
\* difference of their prefixes, its value the quotient of their values in T
DivContract ==
  last.op = "div" =>
    /\ last.ok
    /\ \A u \in UnitSet :
         /\ IsReducedFrac(last.q.dim[u])
         /\ IsDifferenceOf(last.q.dim[u], last.l.dim[u], last.r.dim[u])
    /\ last.q.pref = last.l.pref - last.r.pref
    /\ last.r.val # 0 =>
         /\ last.ub = "none"
         /\ IsQuotientOf(last.q.val, last.l.val, last.r.val)
         /\ x = last.q
    /\ last.r.val = 0 => last.ub # "none"

\* a force divided by an area is a pressure: mass 1/1, length -1/1, time -2/1
DivWitness ==
  /\ last.op = "div"
  /\ last.l = Newtons(1)
  /\ last.r = MetersSq(1)
  /\ last.q.val = 1
  /\ last.q.dim =
       [u \in UnitSet |->
          [num |-> IF u = "kg" THEN 1 ELSE IF u = "m" THEN -1 ELSE IF u = "s" THEN -2 ELSE 0,
           den |-> 1]]

\* C3: multiplying or dividing by a bare number s acts as if s were a
\* dimensionless quantity of prefix 0: q*s, s*q and q/s keep q's dimension and
\* prefix, s/q has the negated dimension and the prefix 0 - q.prefix
ScalarAsDimensionless ==
  /\ last.op \in {"q*s", "s*q", "q/s"} => Tag(last.q) = Tag(last.l)
  /\ last.op = "s/q" =>
       /\ \A u \in UnitSet : IsDifferenceOf(last.q.dim[u], ZeroDim[u], last.l.dim[u])
       /\ last.q.pref = 0 - last.l.pref

\* C4, as claimed: with integer storage 5 at prefix 0, converted to prefix 3 and
\* back to prefix 0, is 5; converted to prefix -3 and back, it is 0
RoundTripAsClaimed ==
  (/\ last.op = "convert"
   /\ last.chained
   /\ last.from.val = 5
   /\ last.from.pref = 0
   /\ last.s = 0) =>
     /\ last.l.pref = 3 => last.q.val = 5
     /\ last.l.pref = -3 => last.q.val = 0

\* C4, amended: with integer storage 5 at prefix 0, converted to prefix 3 and
\* back to prefix 0, is 0 (the way up divides by ten and truncates); converted
\* to prefix -3 and back, it is 5
RoundTripAmended ==
  (/\ last.op = "convert"
   /\ last.chained
   /\ last.from.val = 5
   /\ last.from.pref = 0
   /\ last.s = 0) =>
     /\ last.l.pref = 3 => last.l.val = 0 /\ last.q.val = 0
     /\ last.l.pref = -3 => last.l.val = 5000 /\ last.q.val = 5

\* 5 at prefix 0 went to prefix 3 and came back to prefix 0
RoundTripWitness ==
  /\ last.op = "convert"
  /\ last.chained
  /\ last.from.val = 5
  /\ last.from.pref = 0
  /\ last.l.pref = 3
  /\ last.s = 0
  /\ last.q.val = 0

\* v divided by ten n times, T's division applied at each step
TruncTen(v) == IF v >= 0 THEN v \div 10 ELSE -((-v) \div 10)

RECURSIVE DivTenTimes(_, _)
DivTenTimes(v, n) == IF n = 0 THEN v ELSE DivTenTimes(TruncTen(v), n - 1)

\* C5: a prefix conversion keeps the dimension, takes the target prefix, and
\* rescales the value by 10^(source - target): multiplied by ten that many
\* times, or divided by ten (target - source) times, or unchanged
ConvertContract ==
  last.op = "convert" =>
    /\ last.ok
    /\ last.q.dim = last.l.dim
    /\ last.q.pref = last.s
    /\ last.l.pref > last.s => last.q.val = last.l.val * Pow10(last.l.pref - last.s)
    /\ last.l.pref < last.s => last.q.val = DivTenTimes(last.l.val, last.s - last.l.pref)
    /\ last.l.pref = last.s => last.q.val = last.l.val
    /\ x = last.q

\* a negative value loses its digits on the way to a larger prefix
ConvertWitness ==
  /\ last.op = "convert"
  /\ last.l.val = -5
  /\ last.l.pref = 0
  /\ last.s = 3
  /\ last.q.val = 0
  /\ last.q.pref = 3

\* C6: the raw constructor RationalTypeReduced<...> does not compile when one
\* of the seven fractions written is not reduced (0/2 and 0/-1 included)
RawRejectsUnreduced ==
  (/\ last.op = "RationalTypeReduced"
   /\ \E u \in UnitSet : ~IsReducedFrac(last.r.dim[u])) => ~last.ok

\* C7: RationalType<..., n, d, ...> with d # 0 compiles and stores the reduced
\* fraction equal to n/d; every exponent a multiplication or a division
\* returns, and every exponent of the quantity the session holds, is reduced
AlwaysReduced ==
  /\ last.op = "RationalType" =>
       /\ last.ok <=> \A u \in UnitSet : last.r.dim[u].den # 0
       /\ last.ok => \A u \in UnitSet :
            /\ IsReducedFrac(last.q.dim[u])
            /\ last.q.dim[u].num * last.r.dim[u].den = last.r.dim[u].num * last.q.dim[u].den
  /\ last.op \in {"mul", "div"} => \A u \in UnitSet : IsReducedFrac(last.q.dim[u])
  /\ \A u \in UnitSet : IsReducedFrac(x.dim[u])

\* the square root of a length, squared: 1/2 + 1/2 is stored as 1/1
ReducedWitness ==
  /\ last.op = "mul"
  /\ last.l.dim["m"] = [num |-> 1, den |-> 2]
  /\ last.r.dim["m"] = [num |-> 1, den |-> 2]
  /\ last.q.dim["m"] = [num |-> 1, den |-> 1]

\* C8: x + r, x - r and the six comparisons compile exactly when both operands
\* have the same seven exponents and the same prefix; the sum and the
\* difference keep that dimension and prefix; a rejected call changes nothing
AddSubCompareContract ==
  last.op \in {"add", "sub"} \cup CmpOps =>
    /\ last.ok <=> (last.l.dim = last.r.dim /\ last.l.pref = last.r.pref)
    /\ (last.ok /\ last.op = "add") =>
         /\ Tag(last.q) = Tag(last.l)
         /\ last.q.val = last.l.val + last.r.val
         /\ x = last.q
    /\ (last.ok /\ last.op = "sub") =>
         /\ Tag(last.q) = Tag(last.l)
         /\ last.q.val = last.l.val - last.r.val
         /\ x = last.q
    /\ ~last.ok => x = last.l

\* a sum of two dimensionless quantities of different prefixes is rejected
AddSubCompareWitness ==
  /\ last.op = "add"
  /\ ~last.ok
  /\ last.l.dim = last.r.dim
  /\ last.l.pref = 0
  /\ last.r.pref = 3
  /\ x = last.l

\* C9: the dimension and prefix of a chain of products and quotients do not
\* depend on the order of the chain: l*r = r*l, (l*r)*c = l*(r*c),
\* (l*r)/c = l*(r/c) = (l/c)*r; and (1 kg * 1 m) / (1 s * 1 s) is Newtons(1)
ChainOrderIndependent ==
  /\ last.op = "mul" =>
       /\ Tag(last.q) = Tag(OpMul(last.r, last.l))
       /\ \A c \in LitTypes :
            /\ Tag(OpMul(last.q, c)) = Tag(OpMul(last.l, OpMul(last.r, c)))
            /\ \A t \in {Tag(OpDiv(last.q, c))} :
                 /\ t = Tag(OpMul(last.l, OpDiv(last.r, c)))
                 /\ t = Tag(OpMul(OpDiv(last.l, c), last.r))
  /\ (/\ last.op = "div"
      /\ last.l = OpMul(Kilograms(1), Meters(1))
      /\ last.r = OpMul(Seconds(1), Seconds(1))) => last.q = Newtons(1)

\* (1 kg * 1 m) / (1 s * 1 s) was computed and is the force of value 1
ChainWitness ==
  /\ last.op = "div"
  /\ last.l = OpMul(Kilograms(1), Meters(1))
  /\ last.r = OpMul(Seconds(1), Seconds(1))
  /\ last.q = Newtons(1)

\* C10: every call of getUnit() that has returned, returned the string a call
\* by one thread alone returns, and once all calls are over the cached string
\* is that string
GetUnitRaceSafe ==
  /\ \A t \in Threads : pc[t].at = "done" => ret[t] = UnitString(utag)
  /\ (\A t \in Threads : pc[t].at = "done") => s_unitString = UnitString(utag)

====
